---------------------------- MODULE Spec2Model ----------------------------
(***************************************************************************)
(* A model of os-rust: the VGA text Writer (src/src/vga_buffer.rs), the    *)
(* interrupt handlers (src/src/interrupts.rs) and the kernel entry point   *)
(* (src/src/main.rs).                                                      *)
(*                                                                         *)
(* The framebuffer is a BUFFER_HEIGHT x BUFFER_WIDTH grid.  The code sets  *)
(* 25 x 80; the Writer's code is parametric in the two constants, and the  *)
(* model checks it on a small grid (and on the next larger one).           *)
(***************************************************************************)
EXTENDS Integers, Sequences, FiniteSets, TLC

VARIABLES
    writer,       \* the Writer behind WRITER: column_position, color_code, buffer
    last,         \* history: the last Writer operation, its argument, the Writer before it
    run,          \* history: the run of write_byte calls since column 0
    lines,        \* history: the lines printed by println! since construction
    stack,        \* the CPU's execution contexts: _start below, the running handler on top
    intr_flag,    \* RFLAGS.IF: hardware interrupts enabled
    locks,        \* the spin::Mutex of WRITER, KEYBOARD, PICS: the depth of the holder, or 0
    idt_loaded,   \* IDT.load() has run
    pic,          \* the chained 8259 controllers: lines requested, lines in service
    port60,       \* the keyboard controller's output buffer (port 0x60), -1 when empty
    keyboard,     \* KEYBOARD: the scancode decoder's state
    irqs,         \* the number of interrupt requests the devices raised
    out           \* history: the _print calls made, the write_str calls of each, and
                  \* the interrupt flag at the call and at the return of the calls

\* the history of the Writer's operations
hvars == <<last, run, lines>>

\* the machine around the Writer
svars == <<stack, intr_flag, locks, idt_loaded, pic, port60, keyboard, irqs, out>>

vars == <<writer, last, run, lines, stack, intr_flag, locks, idt_loaded, pic, port60,
          keyboard, irqs, out>>

----------------------------------------------------------------------------
(* Bounds of the model *)

\* rows of the framebuffer in the model (the code: 25)
BUFFER_HEIGHT == 3
\* columns of the framebuffer in the model (the code: 80)
BUFFER_WIDTH == 3
\* Writer operations in one behaviour of SpecWriter
MaxOps == 3
\* write_byte calls in one behaviour of SpecRun
MaxRun == 7
\* println! calls in one behaviour of SpecLines
MaxLines == 4
\* interrupt requests the devices raise in one behaviour
MaxIrqs == 2
\* println! calls of test_println_many in the model (the code: 200)
MaxPrintlns == 2

----------------------------------------------------------------------------
(* Bytes *)

Byte == 0..255

NEWLINE == 10

SPACE == 32

PLACEHOLDER == 254

\* 0x20..=0x7e
Printable == 32..126

----------------------------------------------------------------------------
(* enum Color, ColorCode::new *)

Color ==
    [Black |-> 0, Blue |-> 1, Green |-> 2, Cyan |-> 3, Red |-> 4, Magenta |-> 5,
     Brown |-> 6, LightGray |-> 7, DarkGray |-> 8, LightBlue |-> 9,
     LightGreen |-> 10, LightCyan |-> 11, LightRed |-> 12, Pink |-> 13,
     Yellow |-> 14, White |-> 15]

RECURSIVE BitOr(_, _)
\* a | b on naturals
BitOr(a, b) ==
    IF a = 0 THEN b
    ELSE IF b = 0 THEN a
    ELSE (IF a % 2 = 1 \/ b % 2 = 1 THEN 1 ELSE 0) + 2 * BitOr(a \div 2, b \div 2)

\* (x as u8) << n, the bits shifted out of the 8-bit value dropped
Shl8(x, n) == (x * (2 ^ n)) % 256

\* ColorCode::new with the two colors in each other's place
ColorCode_new_swapped(foreground, background) == BitOr(Shl8(foreground, 4), background)

ColorCode_new(foreground, background) == BitOr(Shl8(background, 4), foreground)

----------------------------------------------------------------------------
(* struct ScreenChar, struct Buffer, struct Writer *)

ScreenChar(byte, color) == [ascii_character |-> byte, color_code |-> color]

Rows == 0..(BUFFER_HEIGHT - 1)

Cols == 0..(BUFFER_WIDTH - 1)

\* The element of a one-element set.  The({f(v) : v \in {e}}) is f(e) with e
\* computed once and named v: each step of the loops below names its result so.
The(S) == CHOOSE x \in S : TRUE

\* self.buffer.chars[row][col].write(c); an index outside the grid panics.  A
\* panic ends the operation where it happens, here and in the operations below.
WriteCell(w, row, col, c) ==
    IF row \in Rows /\ col \in Cols
    THEN [w EXCEPT !.buffer[row][col] = c]
    ELSE [w EXCEPT !.panicked = TRUE]

RECURSIVE clear_cols(_, _, _, _)
\* the loop of clear_row from column col on
clear_cols(w, row, blank, col) ==
    IF col >= BUFFER_WIDTH THEN w
    ELSE The({IF v.panicked THEN v ELSE clear_cols(v, row, blank, col + 1) :
                  v \in {WriteCell(w, row, col, blank)}})

clear_row(w, row) == clear_cols(w, row, ScreenChar(SPACE, w.color_code), 0)

RECURSIVE copy_cols(_, _, _)
\* the inner loop of new_line from column col on: chars[row - 1][col] <- chars[row][col]
copy_cols(w, row, col) ==
    IF col >= BUFFER_WIDTH THEN w
    ELSE The({IF v.panicked THEN v ELSE copy_cols(v, row, col + 1) :
                  v \in {WriteCell(w, row - 1, col, w.buffer[row][col])}})

\* the rows loop of new_line taking the rows from the bottom up
copy_rows_reversed(w, row) ==
    LET RECURSIVE down(_, _)
        down(v, r) ==
            IF r < row THEN v
            ELSE The({IF u.panicked THEN u ELSE down(u, r - 1) :
                          u \in {copy_cols(v, r, 0)}})
    IN down(w, BUFFER_HEIGHT - 1)

RECURSIVE copy_rows(_, _)
\* the outer loop of new_line from row `row` on
copy_rows(w, row) ==
    IF row >= BUFFER_HEIGHT THEN w
    ELSE The({IF v.panicked THEN v ELSE copy_rows(v, row + 1) :
                  v \in {copy_cols(w, row, 0)}})

\* new_line without its clear_row call
new_line_no_clear(w) ==
    The({IF shifted.panicked THEN shifted
         ELSE [shifted EXCEPT !.column_position = 0, !.scrolls = @ + 1] :
             shifted \in {copy_rows(w, 1)}})

\* the end of new_line: self.column_position = 0; scrolls counts the calls
new_line_done(cleared) ==
    IF cleared.panicked THEN cleared
    ELSE [cleared EXCEPT !.column_position = 0, !.scrolls = @ + 1]

new_line(w) ==
    The({IF shifted.panicked THEN shifted
         ELSE The({new_line_done(cleared) :
                       cleared \in {clear_row(shifted, BUFFER_HEIGHT - 1)}}) :
             shifted \in {copy_rows(w, 1)}})

\* the end of write_byte writing into the first row of the screen
write_byte_cell_first_row(w1, byte) ==
    LET row == 0
        col == w1.column_position
        color_code == w1.color_code
    IN The({IF w2.panicked THEN w2 ELSE [w2 EXCEPT !.column_position = col + 1] :
                w2 \in {WriteCell(w1, row, col, ScreenChar(byte, color_code))}})

\* the end of write_byte: the cell is written and the cursor advances
write_byte_cell(w1, byte) ==
    LET row == BUFFER_HEIGHT - 1
        col == w1.column_position
        color_code == w1.color_code
    IN The({IF w2.panicked THEN w2 ELSE [w2 EXCEPT !.column_position = col + 1] :
                w2 \in {WriteCell(w1, row, col, ScreenChar(byte, color_code))}})

\* history: write_byte has been called with byte
Called(w, byte) == [w EXCEPT !.calls = Append(@, byte)]

\* write_byte with the wrap test one column late
write_byte_late_wrap(w, byte) ==
    The({IF byte = NEWLINE THEN new_line(w0)
         ELSE The({IF w1.panicked THEN w1 ELSE write_byte_cell(w1, byte) :
                       w1 \in {IF w0.column_position > BUFFER_WIDTH THEN new_line(w0)
                               ELSE w0}}) :
             w0 \in {Called(w, byte)}})

write_byte(w, byte) ==
    The({IF byte = NEWLINE THEN new_line(w0)
         ELSE The({IF w1.panicked THEN w1 ELSE write_byte_cell(w1, byte) :
                       w1 \in {IF w0.column_position >= BUFFER_WIDTH THEN new_line(w0)
                               ELSE w0}}) :
             w0 \in {Called(w, byte)}})

\* the byte write_string hands to write_byte for an input byte
Substitute(byte) == IF byte \in Printable \/ byte = NEWLINE THEN byte ELSE PLACEHOLDER

\* write_string handing every byte to write_byte unchanged
write_string_raw(w, s) ==
    LET RECURSIVE go(_, _)
        go(v, i) ==
            IF i > Len(s) THEN v
            ELSE The({IF u.panicked THEN u ELSE go(u, i + 1) :
                          u \in {write_byte(v, s[i])}})
    IN go(w, 1)

RECURSIVE write_string(_, _)
write_string(w, s) ==
    IF s = <<>> THEN w
    ELSE The({IF v.panicked THEN v ELSE write_string(v, Tail(s)) :
                  v \in {write_byte(w, Substitute(Head(s)))}})

\* Writer { column_position: 0, color_code: ColorCode::new(Yellow, Black), buffer };
\* scrolls, panicked and calls are history: the new_line calls made, an index
\* out of range, the bytes write_byte was called with in the last operation
NewWriter(chars) ==
    [column_position |-> 0,
     color_code      |-> ColorCode_new(Color.Yellow, Color.Black),
     buffer          |-> chars,
     scrolls         |-> 0,
     panicked        |-> FALSE,
     calls           |-> <<>>]

\* What the framebuffer at 0xb8000 may hold when the Writer is built: the code
\* does not clear it.  Blank light-gray cells, or text left by the firmware.
BlankScreen == [r \in Rows |-> [c \in Cols |-> ScreenChar(SPACE, Color.LightGray)]]

FirmwareScreen ==
    [r \in Rows |-> [c \in Cols |-> ScreenChar(48 + ((r + c) % 10), Color.LightGray)]]

InitialScreens == {BlankScreen, FirmwareScreen}


----------------------------------------------------------------------------
(* impl fmt::Write for Writer; the print! and println! macros *)

\* history: an operation on the Writer starts
Operation(w) == [w EXCEPT !.calls = <<>>]

write_str(w, s) == write_string(w, s)

RECURSIVE write_fmt(_, _)
\* core::fmt::write: one write_str call for each piece of the formatted text
write_fmt(w, pieces) ==
    IF pieces = <<>> THEN w
    ELSE The({IF v.panicked THEN v ELSE write_fmt(v, Tail(pieces)) :
                  v \in {write_str(w, Head(pieces))}})

\* format_args!("{}\n", format_args!(...)): the pieces of the text, then "\n"
println_args(pieces) == pieces \o << <<NEWLINE>> >>

----------------------------------------------------------------------------
(* The interrupt vectors *)

PIC_1_OFFSET == 32

\* a slave offset inside the master's range
PIC_2_OFFSET_overlapping == PIC_1_OFFSET + 7

PIC_2_OFFSET == PIC_1_OFFSET + 8

\* enum InterruptIndex: Timer = PIC_1_OFFSET, Keyboard the next value
InterruptIndex == [Timer |-> PIC_1_OFFSET, Keyboard |-> PIC_1_OFFSET + 1]

\* InterruptIndex::as_u8: self as u8
as_u8(index) == index % 256

\* the vectors of the CPU exceptions the table has handlers for
BreakpointVector == 3

DoubleFaultVector == 8

\* the table built without the Keyboard entry
IDT_without_keyboard ==
    [[v \in 0..255 |-> "unhandled"] EXCEPT
        ![BreakpointVector] = "breakpoint_handler",
        ![DoubleFaultVector] = "double_fault_handler",
        ![InterruptIndex.Timer] = "timer_interrupt_handler"]

\* lazy_static IDT: InterruptDescriptorTable::new(), then the four set_handler_fn
IDT ==
    [[v \in 0..255 |-> "unhandled"] EXCEPT
        ![BreakpointVector] = "breakpoint_handler",
        ![DoubleFaultVector] = "double_fault_handler",
        ![InterruptIndex.Timer] = "timer_interrupt_handler",
        ![InterruptIndex.Keyboard] = "keyboard_interrupt_handler"]

\* the stack the entries switch to: set_stack_index(gdt::DOUBLE_FAULT_IST_INDEX)
\* on the double fault entry, no switch on the others
IDT_stack_index ==
    [[v \in 0..255 |-> "none"] EXCEPT ![DoubleFaultVector] = "DOUBLE_FAULT_IST_INDEX"]

\* the vector the controllers deliver for IRQ line 0..15
VectorOfLine(line) ==
    IF line < 8 THEN PIC_1_OFFSET + line ELSE PIC_2_OFFSET + (line - 8)

\* the lines of the master controller, and of the slave
MasterLines == 0..7

SlaveLines == 8..15

Lowest(S) == CHOOSE x \in S : \A y \in S : x <= y

\* a non-specific end-of-interrupt command to one controller: its in-service
\* line of highest priority is no longer in service
EndOfInterrupt(p, chip) ==
    IF p.isr \cap chip = {} THEN p
    ELSE [p EXCEPT !.isr = @ \ {Lowest(p.isr \cap chip)}]

\* ChainedPics::notify_end_of_interrupt(vector): the slave first when the vector
\* is one of its own, then the master
notify_end_of_interrupt(p, vector) ==
    IF vector >= PIC_1_OFFSET /\ vector < PIC_2_OFFSET + 8
    THEN LET p1 == IF vector >= PIC_2_OFFSET THEN EndOfInterrupt(p, SlaveLines) ELSE p
         IN EndOfInterrupt(p1, MasterLines)
    ELSE p

----------------------------------------------------------------------------
(* The texts printed *)

\* "Hello World"
HelloWorld == <<72, 101, 108, 108, 111, 32, 87, 111, 114, 108, 100>>

\* "It did not crash!"
ItDidNotCrash ==
    <<73, 116, 32, 100, 105, 100, 32, 110, 111, 116, 32, 99, 114, 97, 115, 104, 33>>

\* "EXCEPTION: BREAKPOINT\n"
ExceptionBreakpoint ==
    <<69, 88, 67, 69, 80, 84, 73, 79, 78, 58, 32, 66, 82, 69, 65, 75, 80, 79, 73, 78,
      84, 10>>

\* "EXCEPTION: DOUBLE FAULT\n"
ExceptionDoubleFault ==
    <<69, 88, 67, 69, 80, 84, 73, 79, 78, 58, 32, 68, 79, 85, 66, 76, 69, 32, 70, 65,
      85, 76, 84, 10>>

\* "panicked at src/interrupts.rs:40:5:\n", the head of PanicInfo's Display
PanickedAt ==
    <<112, 97, 110, 105, 99, 107, 101, 100, 32, 97, 116, 32, 115, 114, 99, 47, 105,
      110, 116, 101, 114, 114, 117, 112, 116, 115, 46, 114, 115, 58, 52, 48, 58, 53,
      58, 10>>

\* {:#?} of the InterruptStackFrame: the snapshot, cut to the name of the type
StackFrameDebug ==
    <<73, 110, 116, 101, 114, 114, 117, 112, 116, 83, 116, 97, 99, 107, 70, 114, 97,
      109, 101>>

\* "."
Heartbeat == <<46>>

\* "test_println_simple output"
TestSimpleOutput ==
    <<116, 101, 115, 116, 95, 112, 114, 105, 110, 116, 108, 110, 95, 115, 105, 109,
      112, 108, 101, 32, 111, 117, 116, 112, 117, 116>>

\* "test_println_many output"
TestManyOutput ==
    <<116, 101, 115, 116, 95, 112, 114, 105, 110, 116, 108, 110, 95, 109, 97, 110,
      121, 32, 111, 117, 116, 112, 117, 116>>

\* "Some test string that fits on a single line", cut to "So" to fit on a
\* single line of the model's grid
TestString == <<83, 111>>

----------------------------------------------------------------------------
(* The code of the execution contexts, one record for each step *)

Call_print(pieces) == [op |-> "print", pieces |-> pieces]

Lock(name) == [op |-> "lock", lock |-> name]

Unlock(name) == [op |-> "unlock", lock |-> name]

Notify(vector) == [op |-> "notify_end_of_interrupt", vector |-> vector]

Op(name) == [op |-> name]

\* os_rust::init(): the table is loaded, the controllers are initialized and
\* interrupts are enabled
init == <<Op("init_idt"), Op("pics_initialize"), Op("enable")>>

\* _start
_start ==
    <<Call_print(println_args(<<HelloWorld, <<33>> >>))>>
    \o init
    \o <<Op("int3"),
         Call_print(println_args(<<ItDidNotCrash>>)),
         Op("loop")>>

\* breakpoint_handler that never returns
breakpoint_handler_halts ==
    <<Call_print(println_args(<<ExceptionBreakpoint, StackFrameDebug>>)), Op("loop")>>

\* breakpoint_handler
breakpoint_handler ==
    <<Call_print(println_args(<<ExceptionBreakpoint, StackFrameDebug>>)), Op("iret")>>

\* double_fault_handler that prints and returns
double_fault_handler_returns ==
    <<Call_print(println_args(<<ExceptionDoubleFault, StackFrameDebug>>)), Op("iret")>>

\* double_fault_handler: panic!("EXCEPTION: DOUBLE FAULT\n{:#?}", stack_frame)
double_fault_handler == <<Op("panic")>>

\* #[panic_handler] fn panic: println!("{}", info); loop {}
panic ==
    <<Call_print(println_args(<<PanickedAt, ExceptionDoubleFault, StackFrameDebug>>)),
      Op("loop")>>

\* timer_interrupt_handler with the acknowledgment before the heartbeat
timer_interrupt_handler_eoi_first ==
    <<Lock("PICS"), Notify(InterruptIndex.Timer), Unlock("PICS"),
      Call_print(<<Heartbeat>>), Op("iret")>>

\* timer_interrupt_handler
timer_interrupt_handler ==
    <<Call_print(<<Heartbeat>>),
      Lock("PICS"),
      Notify(InterruptIndex.Timer),
      Unlock("PICS"),
      Op("iret")>>

\* keyboard_interrupt_handler with the acknowledgment inside the if let
keyboard_interrupt_handler_eoi_in_if ==
    <<Lock("KEYBOARD"),
      Op("port_read"),
      [op |-> "add_byte", else |-> 9],
      [op |-> "process_keyevent", else |-> 9],
      Op("print_key"),
      Lock("PICS"),
      Notify(InterruptIndex.Keyboard),
      Unlock("PICS"),
      Unlock("KEYBOARD"),
      Op("iret")>>

\* keyboard_interrupt_handler that unwraps what the decoder returns: it panics
\* when add_byte gives no event
keyboard_interrupt_handler_unwrap ==
    <<Lock("KEYBOARD"),
      Op("port_read"),
      [op |-> "add_byte", else |-> 11],
      [op |-> "process_keyevent", else |-> 6],
      Op("print_key"),
      Lock("PICS"),
      Notify(InterruptIndex.Keyboard),
      Unlock("PICS"),
      Unlock("KEYBOARD"),
      Op("iret"),
      Op("panic")>>

\* keyboard_interrupt_handler; else is the step after the if let when it fails
keyboard_interrupt_handler ==
    <<Lock("KEYBOARD"),
      Op("port_read"),
      [op |-> "add_byte", else |-> 6],
      [op |-> "process_keyevent", else |-> 6],
      Op("print_key"),
      Lock("PICS"),
      Notify(InterruptIndex.Keyboard),
      Unlock("PICS"),
      Unlock("KEYBOARD"),
      Op("iret")>>

\* #[test_case] test_breakpoint_exception
test_breakpoint_exception == <<Op("int3")>>

\* #[test_case] test_println_simple
test_println_simple == <<Call_print(println_args(<<TestSimpleOutput>>))>>

\* #[test_case] test_println_many: the println! of each turn of the loop
test_println_many ==
    [k \in 1..MaxPrintlns |-> Call_print(println_args(<<TestManyOutput>>))]

\* #[test_case] test_println_output; skip and back are the distances to the
\* step after the loop and to its head
test_println_output ==
    <<Op("save_flag"),                                   \* without_interrupts(|| {
      Op("disable"),
      Lock("WRITER"),                                    \* let mut writer = WRITER.lock();
      [op |-> "writeln", pieces |-> <<<<NEWLINE>>, TestString, <<NEWLINE>>>>],
      [op |-> "for", s |-> TestString, skip |-> 6],      \* for (i, c) in s.chars().enumerate()
      Lock("WRITER"),                                    \* WRITER.lock()
      Op("read_cell"),                                   \*     .buffer.chars[BUFFER_HEIGHT - 2][i].read();
      Unlock("WRITER"),                                  \* the temporary guard is dropped
      [op |-> "assert_eq", s |-> TestString],
      [op |-> "next", back |-> 5],
      Unlock("WRITER"),                                  \* writer is dropped
      Op("restore")>>                                    \* })

\* a failed assertion: the test build's panic handler, which does not return
test_panic == <<Op("loop")>>

\* the entry point of the test build: init, then the test cases one by one
test_start ==
    init
    \o test_breakpoint_exception
    \o test_println_simple
    \o test_println_many
    \o test_println_output
    \o <<Op("loop")>>

Code(name) ==
    CASE name = "_start" -> _start
      [] name = "test_start" -> test_start
      [] name = "test_panic" -> test_panic
      [] name = "breakpoint_handler" -> breakpoint_handler
      [] name = "double_fault_handler" -> double_fault_handler
      [] name = "panic" -> panic
      [] name = "timer_interrupt_handler" -> timer_interrupt_handler
      [] name = "keyboard_interrupt_handler" -> keyboard_interrupt_handler

----------------------------------------------------------------------------
(* The keyboard decoder: Keyboard<Us104Key, ScancodeSet1>, HandleControl::Ignore *)

\* the make codes of scancode set 1 the model knows: A, left shift, F1
MakeCodes == [c \in {30, 42, 59} |-> CASE c = 30 -> "A" [] c = 42 -> "LShift" [] c = 59 -> "F1"]

\* after the 0xE0 prefix: the up arrow
ExtendedCodes == [c \in {72} |-> "ArrowUp"]

ExtendedPrefix == 224

\* the scancodes the keyboard sends in the model: A pressed, A released, left
\* shift pressed, F1 pressed, the 0xE0 prefix, a byte no key has
ScancodeInputs == {30, 158, 42, 59, ExtendedPrefix, 255}

NewKeyboard == [state |-> "Idle", shift |-> FALSE]

NoEvent == [code |-> "None", down |-> FALSE]

\* Keyboard::add_byte: Err, Ok(None) or Ok(Some(event)); the decoder is Idle
\* again after an event or an error
add_byte(kb, scancode) ==
    LET table == IF kb.state = "Idle" THEN MakeCodes ELSE ExtendedCodes
        code  == scancode % 128
    IN IF kb.state = "Idle" /\ scancode = ExtendedPrefix
       THEN [kb |-> [kb EXCEPT !.state = "AwaitingContinuation"],
             result |-> "none", event |-> NoEvent]
       ELSE IF code \in DOMAIN table
       THEN [kb |-> [kb EXCEPT !.state = "Idle"],
             result |-> "event",
             event |-> [code |-> table[code], down |-> scancode < 128]]
       ELSE [kb |-> [kb EXCEPT !.state = "Idle"], result |-> "error", event |-> NoEvent]

NoKey == [kind |-> "None", text |-> <<>>]

\* Keyboard::process_keyevent: a modifier key changes the modifier state and
\* decodes to nothing, a release decodes to nothing, a letter to
\* DecodedKey::Unicode, another key to DecodedKey::RawKey; text is what print!
\* formats for the key
process_keyevent(kb, event) ==
    IF event.code = "LShift"
    THEN [kb |-> [kb EXCEPT !.shift = event.down], key |-> NoKey]
    ELSE IF ~event.down
    THEN [kb |-> kb, key |-> NoKey]
    ELSE IF event.code = "A"
    THEN [kb |-> kb,
          key |-> [kind |-> "Unicode", text |-> IF kb.shift THEN <<65>> ELSE <<97>>]]
    ELSE IF event.code = "F1"
    THEN [kb |-> kb, key |-> [kind |-> "RawKey", text |-> <<70, 49>>]]
    ELSE [kb |-> kb,
          key |-> [kind |-> "RawKey", text |-> <<65, 114, 114, 111, 119, 85, 112>>]]

----------------------------------------------------------------------------
(* The machine: one CPU, its stack of interrupted contexts, the devices *)

\* entry is history: the interrupt flag when _print was called
NoPrint == [pc |-> "idle", saved |-> FALSE, pieces |-> <<>>, call |-> 0, entry |-> FALSE]

\* the locals of test_println_output: saved_intpt_flag, i, screen_char
NoTest == [saved |-> FALSE, i |-> 0, screen_char |-> -1]

\* the context the CPU enters for a handler: the saved RFLAGS.IF is in the
\* InterruptStackFrame it pushes
NewFrame(code, saved_if) ==
    [ctx |-> code, code |-> code, pc |-> 1, ret_if |-> saved_if, pr |-> NoPrint,
     trace |-> <<>>, scancode |-> -1, key_event |-> NoEvent, key |-> NoKey,
     test |-> NoTest]

\* the machine when the entry point `entry` starts to run
InitMachine(entry) ==
    /\ stack = <<NewFrame(entry, FALSE)>>
    /\ intr_flag = FALSE
    /\ locks = [WRITER |-> 0, KEYBOARD |-> 0, PICS |-> 0]
    /\ idt_loaded = FALSE
    /\ pic = [irr |-> {}, isr |-> {}, initialized |-> FALSE]
    /\ port60 = -1
    /\ keyboard = NewKeyboard
    /\ irqs = 0
    /\ out = [calls |-> 0, log |-> <<>>, returned |-> {}]

InitSystem == InitMachine("_start")

Depth == Len(stack)

Top == stack[Depth]

Instr == Code(Top.code)[Top.pc]

\* the running context is at a step of kind op, outside _print
Ready(op) == Top.pr.pc = "idle" /\ Instr.op = op

SetTop(f) == [stack EXCEPT ![Depth] = f]

Advance(f) == [f EXCEPT !.pc = @ + 1]

Traced(f, what) == [f EXCEPT !.trace = Append(@, what)]

----------------------------------------------------------------------------
(* _print: interrupts::without_interrupts(|| WRITER.lock().write_fmt(args).unwrap()) *)

\* the pieces a print! step formats: a text, or the key just decoded
Pieces(f, instr) == IF instr.op = "print_key" THEN <<f.key.text>> ELSE instr.pieces

\* without_interrupts that leaves the interrupt flag as it is
without_interrupts_no_disable(saved, flag) == flag

\* without_interrupts: if saved_intpt_flag { disable() }
without_interrupts_disable(saved, flag) == IF saved THEN FALSE ELSE flag

\* without_interrupts that enables interrupts when it ends, whatever it found
without_interrupts_enable(saved, flag) == TRUE

\* without_interrupts: if saved_intpt_flag { enable() }
without_interrupts_restore(saved, flag) == IF saved THEN TRUE ELSE flag

\* print!(...) calls _print(format_args!(...))
CallPrint ==
    /\ Top.pr.pc = "idle"
    /\ Instr.op \in {"print", "print_key"}
    /\ stack' = SetTop([Advance(Top) EXCEPT
                            !.pr = [pc |-> "save", saved |-> FALSE,
                                    pieces |-> Pieces(Top, Instr),
                                    call |-> out.calls + 1,
                                    entry |-> intr_flag]])
    /\ out' = [out EXCEPT !.calls = @ + 1]
    /\ UNCHANGED <<writer, hvars, intr_flag, locks, idt_loaded, pic, port60, keyboard, irqs>>

\* without_interrupts: let saved_intpt_flag = are_enabled()
PrintSave ==
    /\ Top.pr.pc = "save"
    /\ stack' = SetTop([Top EXCEPT !.pr.saved = intr_flag, !.pr.pc = "cli"])
    /\ UNCHANGED <<writer, hvars, intr_flag, locks, idt_loaded, pic, port60, keyboard,
                   irqs, out>>

PrintDisable ==
    /\ Top.pr.pc = "cli"
    /\ intr_flag' = without_interrupts_disable(Top.pr.saved, intr_flag)
    /\ stack' = SetTop([Top EXCEPT !.pr.pc = "lock"])
    /\ UNCHANGED <<writer, hvars, locks, idt_loaded, pic, port60, keyboard, irqs, out>>

\* WRITER.lock(): the spin lock is taken when it is free, and is waited for otherwise
PrintLock ==
    /\ Top.pr.pc = "lock"
    /\ locks.WRITER = 0
    /\ locks' = [locks EXCEPT !.WRITER = Depth]
    /\ stack' = SetTop([Top EXCEPT
                            !.pr.pc = IF Top.pr.pieces = <<>> THEN "unlock" ELSE "write"])
    /\ UNCHANGED <<writer, hvars, intr_flag, idt_loaded, pic, port60, keyboard, irqs, out>>

\* write_fmt: the next write_str call
PrintWrite ==
    /\ Top.pr.pc = "write"
    /\ LET piece == Head(Top.pr.pieces)
           rest  == Tail(Top.pr.pieces)
       IN /\ writer' = write_str(Operation(writer), piece)
          /\ stack' = SetTop([Traced(Top, <<"write", piece>>) EXCEPT
                                  !.pr.pieces = rest,
                                  !.pr.pc = IF rest = <<>> THEN "unlock" ELSE "write"])
          /\ out' = [out EXCEPT
                         !.log = Append(@, [by |-> Top.ctx, call |-> Top.pr.call,
                                            done |-> rest = <<>>])]
    /\ UNCHANGED <<hvars, intr_flag, locks, idt_loaded, pic, port60, keyboard, irqs>>

\* the MutexGuard of WRITER.lock() is dropped at the end of the statement
PrintUnlock ==
    /\ Top.pr.pc = "unlock"
    /\ locks' = [locks EXCEPT !.WRITER = 0]
    /\ stack' = SetTop([Top EXCEPT !.pr.pc = "restore"])
    /\ UNCHANGED <<writer, hvars, intr_flag, idt_loaded, pic, port60, keyboard, irqs, out>>

PrintRestore ==
    /\ Top.pr.pc = "restore"
    /\ intr_flag' = without_interrupts_restore(Top.pr.saved, intr_flag)
    /\ stack' = SetTop([Top EXCEPT !.pr = NoPrint])
    /\ out' = [out EXCEPT !.returned = @ \cup {[by |-> Top.ctx, entry |-> Top.pr.entry,
                                                 exit |-> intr_flag']}]
    /\ UNCHANGED <<writer, hvars, locks, idt_loaded, pic, port60, keyboard, irqs>>

----------------------------------------------------------------------------
(* The steps of _start and of the handlers *)

\* KEYBOARD.lock(), PICS.lock()
LockStep ==
    /\ Ready("lock")
    /\ locks[Instr.lock] = 0
    /\ locks' = [locks EXCEPT ![Instr.lock] = Depth]
    /\ stack' = SetTop(Advance(Top))
    /\ UNCHANGED <<writer, hvars, intr_flag, idt_loaded, pic, port60, keyboard, irqs, out>>

\* the guard of KEYBOARD.lock() or PICS.lock() is dropped
UnlockStep ==
    /\ Ready("unlock")
    /\ locks' = [locks EXCEPT ![Instr.lock] = 0]
    /\ stack' = SetTop(Advance(Top))
    /\ UNCHANGED <<writer, hvars, intr_flag, idt_loaded, pic, port60, keyboard, irqs, out>>

\* Port::new(0x60).read(): the byte is taken from the controller's output buffer
PortRead ==
    /\ Ready("port_read")
    /\ stack' = SetTop(Traced([Advance(Top) EXCEPT !.scancode = port60 % 256],
                              <<"read", port60 % 256>>))
    /\ port60' = -1
    /\ UNCHANGED <<writer, hvars, intr_flag, locks, idt_loaded, pic, keyboard, irqs, out>>

\* if let Ok(Some(key_event)) = keyboard.add_byte(scancode)
AddByte ==
    /\ Ready("add_byte")
    /\ LET r == add_byte(keyboard, Top.scancode)
       IN /\ keyboard' = r.kb
          /\ stack' = SetTop(Traced([Top EXCEPT
                                         !.key_event = r.event,
                                         !.pc = IF r.result = "event" THEN @ + 1
                                                ELSE Instr.else],
                                    <<"add_byte", r.result>>))
    /\ UNCHANGED <<writer, hvars, intr_flag, locks, idt_loaded, pic, port60, irqs, out>>

\* if let Some(key) = keyboard.process_keyevent(key_event)
ProcessKeyevent ==
    /\ Ready("process_keyevent")
    /\ LET r == process_keyevent(keyboard, Top.key_event)
       IN /\ keyboard' = r.kb
          /\ stack' = SetTop(Traced([Top EXCEPT
                                         !.key = r.key,
                                         !.pc = IF r.key.kind # "None" THEN @ + 1
                                                ELSE Instr.else],
                                    <<"process_keyevent", r.key.kind>>))
    /\ UNCHANGED <<writer, hvars, intr_flag, locks, idt_loaded, pic, port60, irqs, out>>

\* PICS.lock().notify_end_of_interrupt(vector)
NotifyEndOfInterrupt ==
    /\ Ready("notify_end_of_interrupt")
    /\ pic' = notify_end_of_interrupt(pic, Instr.vector)
    /\ stack' = SetTop(Traced(Advance(Top), <<"eoi", Instr.vector>>))
    /\ UNCHANGED <<writer, hvars, intr_flag, locks, idt_loaded, port60, keyboard, irqs, out>>

\* the handler returns: iretq pops the context and restores RFLAGS
Iret ==
    /\ Ready("iret")
    /\ Depth > 1
    /\ stack' = SubSeq(stack, 1, Depth - 1)
    /\ intr_flag' = Top.ret_if
    /\ UNCHANGED <<writer, hvars, locks, idt_loaded, pic, port60, keyboard, irqs, out>>

\* the CPU enters the handler of a vector through its interrupt gate: the
\* context is pushed and interrupts are disabled; a vector without a handler
\* ends in the double fault handler
Enter(vector, resumed) ==
    LET handler == IF IDT[vector] = "unhandled" THEN IDT[DoubleFaultVector]
                   ELSE IDT[vector]
    IN /\ stack' = Append(SetTop(resumed), NewFrame(handler, intr_flag))
       /\ intr_flag' = FALSE

\* x86_64::instructions::interrupts::int3()
Int3 ==
    /\ Ready("int3")
    /\ idt_loaded
    /\ Enter(BreakpointVector, Advance(Top))
    /\ UNCHANGED <<writer, hvars, locks, idt_loaded, pic, port60, keyboard, irqs, out>>

\* init_idt: IDT.load()
InitIdt ==
    /\ Ready("init_idt")
    /\ idt_loaded' = TRUE
    /\ stack' = SetTop(Advance(Top))
    /\ UNCHANGED <<writer, hvars, intr_flag, locks, pic, port60, keyboard, irqs, out>>

\* PICS.lock().initialize()
PicsInitialize ==
    /\ Ready("pics_initialize")
    /\ locks.PICS = 0
    /\ pic' = [pic EXCEPT !.initialized = TRUE]
    /\ stack' = SetTop(Advance(Top))
    /\ UNCHANGED <<writer, hvars, intr_flag, locks, idt_loaded, port60, keyboard, irqs, out>>

\* x86_64::instructions::interrupts::enable()
Enable ==
    /\ Ready("enable")
    /\ intr_flag' = TRUE
    /\ stack' = SetTop(Advance(Top))
    /\ UNCHANGED <<writer, hvars, locks, idt_loaded, pic, port60, keyboard, irqs, out>>

\* panic!(...): the panic handler is entered and never left
Panic ==
    /\ Ready("panic")
    /\ stack' = SetTop([Top EXCEPT !.code = "panic", !.pc = 1])
    /\ UNCHANGED <<writer, hvars, intr_flag, locks, idt_loaded, pic, port60, keyboard,
                   irqs, out>>

\* a step of test_println_output other than a lock, an unlock or a print
TestStep ==
    /\ Top.pr.pc = "idle"
    /\ Instr.op \in {"save_flag", "disable", "writeln", "for", "read_cell", "assert_eq",
                     "next", "restore"}
    /\ intr_flag' =
           CASE Instr.op = "disable" -> without_interrupts_disable(Top.test.saved, intr_flag)
             [] Instr.op = "restore" -> without_interrupts_restore(Top.test.saved, intr_flag)
             [] OTHER -> intr_flag
    /\ writer' =
           IF Instr.op = "writeln" THEN write_fmt(Operation(writer), Instr.pieces)
           ELSE writer
    /\ stack' = SetTop(
           CASE Instr.op = "save_flag" -> [Advance(Top) EXCEPT !.test.saved = intr_flag]
             [] Instr.op = "writeln" -> Traced(Advance(Top), <<"writeln", Instr.pieces>>)
             [] Instr.op = "for" ->
                    [Top EXCEPT !.pc = IF Top.test.i < Len(Instr.s) THEN @ + 1
                                       ELSE @ + Instr.skip]
             [] Instr.op = "read_cell" ->
                    [Advance(Top) EXCEPT
                         !.test.screen_char =
                             writer.buffer[BUFFER_HEIGHT - 2][Top.test.i].ascii_character]
             [] Instr.op = "assert_eq" ->
                    IF Top.test.screen_char = Instr.s[Top.test.i + 1] THEN Advance(Top)
                    ELSE [Top EXCEPT !.code = "test_panic", !.pc = 1]
             [] Instr.op = "next" ->
                    [Top EXCEPT !.test.i = @ + 1, !.pc = @ - Instr.back]
             [] OTHER -> Advance(Top))
    /\ UNCHANGED <<hvars, locks, idt_loaded, pic, port60, keyboard, irqs, out>>

\* a step of the running context; loop {} has none that changes the state
Step ==
    \/ CallPrint
    \/ PrintSave
    \/ PrintDisable
    \/ PrintLock
    \/ PrintWrite
    \/ PrintUnlock
    \/ PrintRestore
    \/ LockStep
    \/ UnlockStep
    \/ PortRead
    \/ AddByte
    \/ ProcessKeyevent
    \/ NotifyEndOfInterrupt
    \/ Iret
    \/ Int3
    \/ InitIdt
    \/ PicsInitialize
    \/ Enable

----------------------------------------------------------------------------
(* The devices and the delivery of their interrupts *)

\* between two instructions, with interrupts enabled, the controllers deliver
\* the requested line of highest priority unless a line of the same or a higher
\* priority is in service
Dispatch(line) ==
    /\ intr_flag
    /\ idt_loaded
    /\ pic.initialized
    /\ line \in pic.irr
    /\ \A l \in pic.irr \cup pic.isr : line <= l
    /\ line \notin pic.isr
    /\ pic' = [pic EXCEPT !.irr = @ \ {line}, !.isr = @ \cup {line}]
    /\ Enter(VectorOfLine(line), Top)
    /\ UNCHANGED <<writer, hvars, locks, idt_loaded, port60, keyboard, irqs, out>>

\* the timer raises IRQ 0
TimerTick ==
    /\ irqs < MaxIrqs
    /\ 0 \notin pic.irr
    /\ pic' = [pic EXCEPT !.irr = @ \cup {0}]
    /\ irqs' = irqs + 1
    /\ UNCHANGED <<writer, hvars, stack, intr_flag, locks, idt_loaded, port60, keyboard, out>>

\* the keyboard puts a scancode in its output buffer and raises IRQ 1; it sends
\* no other until the byte has been read
KeyPress(scancode) ==
    /\ irqs < MaxIrqs
    /\ port60 = -1
    /\ port60' = scancode
    /\ pic' = [pic EXCEPT !.irr = @ \cup {1}]
    /\ irqs' = irqs + 1
    /\ UNCHANGED <<writer, hvars, stack, intr_flag, locks, idt_loaded, keyboard, out>>

\* a line no handler is registered for is raised (IRQ 7)
OtherIrq ==
    /\ irqs < MaxIrqs
    /\ 7 \notin pic.irr \cup pic.isr
    /\ pic' = [pic EXCEPT !.irr = @ \cup {7}]
    /\ irqs' = irqs + 1
    /\ UNCHANGED <<writer, hvars, stack, intr_flag, locks, idt_loaded, port60, keyboard, out>>

\* what the CPU does by itself
Cpu == Step \/ \E line \in 0..15 : Dispatch(line)

CpuFault == Cpu \/ Panic

Next ==
    \/ Step
    \/ \E line \in 0..15 : Dispatch(line)
    \/ TimerTick
    \/ \E scancode \in ScancodeInputs : KeyPress(scancode)

NextFault ==
    \/ Next
    \/ OtherIrq
    \/ Panic

\* the test build: the steps of the kernel and those of test_println_output
NextTests ==
    \/ Next
    \/ TestStep

----------------------------------------------------------------------------
(* The Writer alone: any sequence of its public operations *)

\* the bytes the first MaxOps operations draw from: newline, 'A', 0x01
ByteInputs == {NEWLINE, 65, 1}

\* "Wö" as UTF-8, "A\n", "\t"
StringInputs == {<<87, 195, 182>>, <<65, NEWLINE>>, <<9>>}

NoLast == [op |-> "none", arg |-> 0, pre |-> 0, n |-> 0]

InitHistory ==
    /\ last = NoLast
    /\ run = 0
    /\ lines = <<>>

InitWriter ==
    /\ writer \in {NewWriter(chars) : chars \in InitialScreens}
    /\ InitHistory
    /\ InitSystem

\* lines 149-153: the Writer starts at column 0 over whatever the screen shows
Init ==
    /\ writer = NewWriter(FirmwareScreen)
    /\ InitHistory
    /\ InitSystem

Record(op, arg) == [op |-> op, arg |-> arg, pre |-> writer, n |-> last.n + 1]

\* writer.write_byte(b), one of the first MaxOps operations
WriteByte(b) ==
    /\ last.n < MaxOps
    /\ writer' = write_byte(Operation(writer), b)
    /\ last' = Record("write_byte", b)
    /\ UNCHANGED <<run, lines>>
    /\ UNCHANGED svars

\* writer.write_byte(b) for any byte value, as the last operation of a behaviour
WriteAnyByte(b) ==
    /\ last.n <= MaxOps
    /\ writer' = write_byte(Operation(writer), b)
    /\ last' = [Record("write_byte", b) EXCEPT !.n = MaxOps + 1]
    /\ UNCHANGED <<run, lines>>
    /\ UNCHANGED svars

\* writer.new_line()
NewLine ==
    /\ last.n < MaxOps
    /\ writer' = new_line(Operation(writer))
    /\ last' = Record("new_line", 0)
    /\ UNCHANGED <<run, lines>>
    /\ UNCHANGED svars

\* writer.write_string(s)
WriteString(s) ==
    /\ last.n < MaxOps
    /\ writer' = write_string(Operation(writer), s)
    /\ last' = Record("write_string", s)
    /\ UNCHANGED <<run, lines>>
    /\ UNCHANGED svars

NextWriter ==
    \/ \E b \in ByteInputs : WriteByte(b)
    \/ \E b \in Byte : WriteAnyByte(b)
    \/ NewLine
    \/ \E s \in StringInputs : WriteString(s)

----------------------------------------------------------------------------
(* A run of write_byte calls of non-newline bytes from column 0 *)

\* 'A' and 0x01
RunBytes == {65, 1}

RunByte(b) ==
    /\ run < MaxRun
    /\ writer' = write_byte(Operation(writer), b)
    /\ run' = run + 1
    /\ last' = Record("write_byte", b)
    /\ UNCHANGED lines
    /\ UNCHANGED svars

NextRun == \E b \in RunBytes : RunByte(b)

----------------------------------------------------------------------------
(* A sequence of println! calls, each line fitting on one row *)

\* the lines of 0..BUFFER_WIDTH printable bytes made of one letter, 'A' or 'B'
LineSet == {[i \in 1..n |-> b] : n \in 0..BUFFER_WIDTH, b \in {65, 66}}

\* println!("{}", line) with no interrupt in between
Println(line) ==
    /\ Len(lines) < MaxLines
    /\ writer' = write_fmt(Operation(writer), println_args(<<line>>))
    /\ lines' = Append(lines, line)
    /\ last' = Record("println", line)
    /\ UNCHANGED run
    /\ UNCHANGED svars

NextLines == \E line \in LineSet : Println(line)

----------------------------------------------------------------------------
(* A Writer built with any two colors, and a byte written with it *)

\* the values of enum Color
ColorIndex == {Color[name] : name \in DOMAIN Color}

\* Writer { color_code: ColorCode::new(foreground, background), .. }
NewColorCode(foreground, background) ==
    /\ last.op = "none"
    /\ writer' = [writer EXCEPT !.color_code = ColorCode_new(foreground, background)]
    /\ last' = Record("ColorCode_new", <<foreground, background>>)
    /\ UNCHANGED <<run, lines>>
    /\ UNCHANGED svars

\* writer.write_byte(b'A') with the Writer so built
ColorWriteByte ==
    /\ last.op = "ColorCode_new"
    /\ run = 0
    /\ writer' = write_byte(Operation(writer), 65)
    /\ run' = 1
    /\ UNCHANGED <<last, lines>>
    /\ UNCHANGED svars

NextColor ==
    \/ \E foreground, background \in ColorIndex : NewColorCode(foreground, background)
    \/ ColorWriteByte

----------------------------------------------------------------------------
(* Specifications *)

\* the kernel: _start, the handlers, the timer and the keyboard
Spec == Init /\ [][Next]_vars

\* the CPU keeps executing: the running context, or the delivery of an interrupt
FairSpec == Spec /\ WF_vars(Cpu)

\* the kernel with a device whose line has no handler
SpecFault == Init /\ [][NextFault]_vars

FairSpecFault == SpecFault /\ WF_vars(CpuFault)

\* the test build running the test cases
InitTests ==
    /\ writer = NewWriter(FirmwareScreen)
    /\ InitHistory
    /\ InitMachine("test_start")

SpecTests == InitTests /\ [][NextTests]_vars

SpecWriter == InitWriter /\ [][NextWriter]_vars

SpecRun == InitWriter /\ [][NextRun]_vars

SpecLines == InitWriter /\ [][NextLines]_vars

SpecColor == InitWriter /\ [][NextColor]_vars

----------------------------------------------------------------------------
(* Claims about write_byte, write_string and new_line *)

LastRow == BUFFER_HEIGHT - 1

\* the last operation was write_byte of a byte other than newline
WroteByte == last.op = "write_byte" /\ last.arg # NEWLINE

\* the column write_byte wrote: the cursor before the call, or 0 after a wrap
WrittenCol ==
    IF last.pre.column_position < BUFFER_WIDTH THEN last.pre.column_position ELSE 0

\* C4 as stated: after write_byte(b) of a printable byte, the cell at (last row,
\* column_position before the call) holds (b, current color_code).
C4_AtCursorBeforeCall ==
    (WroteByte /\ last.arg \in Printable) =>
        /\ last.pre.column_position \in Cols
        /\ writer.buffer[LastRow][last.pre.column_position]
               = ScreenChar(last.arg, writer.color_code)

\* C4 amended: after write_byte(b) of a printable byte, (b, current color_code) is
\* in the last row at the column the cursor had before the call when that column
\* is on the screen, and at column 0 when the cursor was at BUFFER_WIDTH (the
\* call scrolls first).
C4_PrintableByteWritten ==
    (WroteByte /\ last.arg \in Printable) =>
        /\ writer.buffer[LastRow][WrittenCol] = ScreenChar(last.arg, writer.color_code)
        /\ writer.column_position = WrittenCol + 1

\* a printable byte was written with the cursor at BUFFER_WIDTH
C4_Witness ==
    /\ WroteByte
    /\ last.arg \in Printable
    /\ last.pre.column_position = BUFFER_WIDTH
    /\ last.pre.buffer[LastRow][0].ascii_character # last.arg

\* C5 as stated: write_byte(b) of a byte outside 0x20..=0x7e other than newline
\* writes the placeholder 0xfe into the cell, never b.
C5_WriteBytePlaceholder ==
    (WroteByte /\ last.arg \notin Printable) =>
        writer.buffer[LastRow][WrittenCol].ascii_character = PLACEHOLDER

\* the bytes of s after position i hold no newline and fit in the current row
StillOnRow(s, i) ==
    /\ \A j \in (i + 1)..Len(s) : s[j] # NEWLINE
    /\ Len(s) - i < writer.column_position

\* C5 amended: write_string writes the placeholder 0xfe for every byte outside
\* 0x20..=0x7e other than newline, never the byte itself; write_byte writes its
\* argument unchanged; both are total over all 256 byte values (no panic).
C5_PlaceholderInWriteString ==
    /\ ~writer.panicked
    /\ (WroteByte /\ last.arg \notin Printable) =>
           writer.buffer[LastRow][WrittenCol] = ScreenChar(last.arg, writer.color_code)
    /\ last.op = "write_string" =>
           \A i \in 1..Len(last.arg) :
               (last.arg[i] # NEWLINE /\ StillOnRow(last.arg, i)) =>
                   writer.buffer[LastRow][writer.column_position - 1 - (Len(last.arg) - i)]
                       = ScreenChar(IF last.arg[i] \in Printable THEN last.arg[i]
                                    ELSE PLACEHOLDER,
                                    writer.color_code)

\* write_string has written a byte outside the printable range
C5_Witness ==
    /\ last.op = "write_string"
    /\ \E i \in 1..Len(last.arg) :
           /\ last.arg[i] \notin Printable
           /\ last.arg[i] # NEWLINE
           /\ StillOnRow(last.arg, i)

\* C6 as stated: from column 0, any number n > BUFFER_WIDTH of non-newline bytes
\* triggers exactly one scroll.
C6_ExactlyOneScroll == run > BUFFER_WIDTH => writer.scrolls = 1

\* C6 amended: from column 0, n non-newline bytes trigger one scroll for each
\* full row before the last byte, (n - 1) div BUFFER_WIDTH of them: exactly one
\* for BUFFER_WIDTH < n <= 2 * BUFFER_WIDTH.  column_position is reset to 0 at
\* each scroll, so the byte that crosses the boundary is at column 0 of the last
\* row.
C6_OneScrollPerRow ==
    /\ writer.scrolls = (IF run = 0 THEN 0 ELSE (run - 1) \div BUFFER_WIDTH)
    /\ writer.column_position = (IF run = 0 THEN 0 ELSE ((run - 1) % BUFFER_WIDTH) + 1)
    /\ (run > BUFFER_WIDTH /\ run <= 2 * BUFFER_WIDTH) => writer.scrolls = 1
    /\ (run > 0 /\ last.pre.column_position = BUFFER_WIDTH) =>
           /\ writer.scrolls = last.pre.scrolls + 1
           /\ writer.column_position = 1
           /\ writer.buffer[LastRow][0] = ScreenChar(last.arg, writer.color_code)

\* the byte after a full row has been written
C6_Witness == run = BUFFER_WIDTH + 1 /\ writer.scrolls = 1

\* the last operation was new_line, called directly or by write_byte(b'\n')
Scrolled ==
    \/ last.op = "new_line"
    \/ last.op = "write_byte" /\ last.arg = NEWLINE

BlankRow(w) == [c \in Cols |-> ScreenChar(SPACE, w.color_code)]

\* C7: after new_line, row i is row i + 1 as it was before the call for every
\* row but the last, the last row is blank in the current color_code, and
\* column_position is 0.
C7_NewLineShiftsRows ==
    Scrolled =>
        /\ \A i \in 0..(BUFFER_HEIGHT - 2) : writer.buffer[i] = last.pre.buffer[i + 1]
        /\ writer.buffer[LastRow] = BlankRow(writer)
        /\ writer.column_position = 0
        /\ writer.color_code = last.pre.color_code

\* new_line was called on a screen whose rows all differ, the cursor inside a row
C7_Witness ==
    /\ last.op = "new_line"
    /\ last.pre.column_position > 0
    /\ \A i, j \in Rows : i # j => last.pre.buffer[i] # last.pre.buffer[j]
    /\ last.pre.buffer[LastRow] # BlankRow(writer)

\* row r holds line s from column 0
HoldsLine(r, s) ==
    \A c \in 1..Len(s) : writer.buffer[r][c - 1] = ScreenChar(s[c], writer.color_code)

\* the cells of row r after the first n are blank
BlankAfter(r, n) ==
    \A c \in n..(BUFFER_WIDTH - 1) : writer.buffer[r][c] = ScreenChar(SPACE, writer.color_code)

\* C8: after n >= 1 println! calls of lines that fit on a row, the last row is
\* blank and row BUFFER_HEIGHT-1-k holds the k-th most recent line from column
\* 0, for k = 1..min(n, BUFFER_HEIGHT-1); nothing of an older line is left in
\* these rows (the cells after the line are blank, but for the first line ever
\* printed, which went onto the row the firmware left).
C8_LastLinesRetained ==
    LET n == Len(lines)
        m == IF n < BUFFER_HEIGHT - 1 THEN n ELSE BUFFER_HEIGHT - 1
    IN n >= 1 =>
           /\ writer.buffer[LastRow] = BlankRow(writer)
           /\ writer.column_position = 0
           /\ \A k \in 1..m :
                  /\ HoldsLine(LastRow - k, lines[n - k + 1])
                  /\ (n - k + 1 > 1) => BlankAfter(LastRow - k, Len(lines[n - k + 1]))

\* more lines than rows have been printed, the oldest ones different from the
\* ones on the screen
C8_Witness ==
    /\ Len(lines) > BUFFER_HEIGHT
    /\ lines[1] # <<>>
    /\ \A i, j \in 1..Len(lines) : i # j => lines[i] # lines[j]

----------------------------------------------------------------------------
(* Claims about the handlers *)

DeviceHandlers == {"timer_interrupt_handler", "keyboard_interrupt_handler"}

InDeviceHandler == \E i \in 1..Depth : stack[i].ctx \in DeviceHandlers

\* the step context f is at
At(f) == Code(f.code)[f.pc]

Returning(f) == f.pr.pc = "idle" /\ At(f).op = "iret"

Acks(trace) == SelectSeq(trace, LAMBDA e : e[1] = "eoi")

\* mainline holds WRITER only with interrupts disabled, no device handler runs
\* while mainline holds WRITER, and a handler finds every lock it takes free
C1_Safe ==
    /\ locks.WRITER = 1 => ~intr_flag
    /\ InDeviceHandler => locks.WRITER # 1
    /\ (Top.ctx \in DeviceHandlers /\ Top.pr.pc = "lock") => locks.WRITER = 0
    /\ (Top.ctx \in DeviceHandlers /\ Ready("lock")) => locks[Instr.lock] = 0

\* C1: in every interleaving of mainline print!/println! with timer and keyboard
\* interrupts, mainline holds WRITER only while interrupts are disabled, no
\* handler starts while mainline holds WRITER, every lock a handler takes
\* (KEYBOARD, WRITER, PICS) is free when it takes it, and every handler that
\* starts runs to completion and returns.
C1_NoHandlerSpinsForever ==
    /\ []C1_Safe
    /\ InDeviceHandler ~> ~InDeviceHandler

\* a handler takes WRITER after interrupting mainline inside a _print call
C1_Witness ==
    /\ Depth = 2
    /\ Top.ctx \in DeviceHandlers
    /\ locks.WRITER = 2
    /\ stack[1].pr.pc # "idle"

\* C2: every keyboard interrupt, whatever the decoder made of the scancode, is
\* acknowledged exactly once, with the Keyboard vector (33), as the last of the
\* handler's actions, after the port read and the decode.
C2_KeyboardAcknowledgedOnce ==
    \A i \in 1..Depth :
        stack[i].ctx = "keyboard_interrupt_handler" =>
            LET trace == stack[i].trace
                acks  == Acks(trace)
            IN /\ Len(acks) <= 1
               /\ Len(acks) = 1 => trace[Len(trace)] = <<"eoi", 33>>
               /\ Returning(stack[i]) =>
                      /\ Len(acks) = 1
                      /\ trace[1][1] = "read"
                      /\ trace[2][1] = "add_byte"

\* a keyboard handler returns after the decoder returned an error
C2_Witness ==
    /\ Top.ctx = "keyboard_interrupt_handler"
    /\ Returning(Top)
    /\ Top.trace[2] = <<"add_byte", "error">>

\* C3: every timer interrupt writes the heartbeat '.' to the display first and
\* then acknowledges the Timer vector (32) exactly once, as its last action; it
\* has released WRITER when it takes PICS.
C3_TimerHeartbeatThenAck ==
    \A i \in 1..Depth :
        stack[i].ctx = "timer_interrupt_handler" =>
            LET trace == stack[i].trace
            IN /\ Len(trace) <= 2
               /\ Len(trace) >= 1 =>
                      /\ trace[1][1] = "write"
                      /\ trace[1][2] = <<46>>
                      /\ writer.column_position >= 1
                      /\ writer.buffer[LastRow][writer.column_position - 1]
                             = ScreenChar(46, writer.color_code)
               /\ Len(trace) = 2 => trace[2] = <<"eoi", 32>>
               /\ Returning(stack[i]) => Len(trace) = 2
               /\ (locks.PICS = i \/ (stack[i].pr.pc = "idle" /\ At(stack[i]).op = "lock"))
                      => locks.WRITER # i

\* a timer handler returns
C3_Witness ==
    /\ Top.ctx = "timer_interrupt_handler"
    /\ Returning(Top)
    /\ Len(Top.trace) = 2

\* the step of _start that issues int3
Int3Pc == CHOOSE i \in 1..Len(_start) : _start[i].op = "int3"

InBreakpoint == \E i \in 1..Depth : stack[i].ctx = "breakpoint_handler"

\* the _print calls of the breakpoint handler that wrote all their text
BreakpointReports ==
    Cardinality({k \in 1..Len(out.log) :
                     out.log[k].by = "breakpoint_handler" /\ out.log[k].done})

\* _start has run the code after the int3: it is in its final loop
MainFinished ==
    /\ stack[1].pr.pc = "idle"
    /\ At(stack[1]).op = "loop"

C9_Safe ==
    /\ stack[1].pc <= Int3Pc => (BreakpointReports = 0 /\ ~InBreakpoint)
    /\ InBreakpoint =>
           /\ stack[1].pc = Int3Pc + 1
           /\ stack[1].pr.pc = "idle"
           /\ BreakpointReports <= 1
    /\ (stack[1].pc > Int3Pc /\ ~InBreakpoint) => BreakpointReports = 1
    /\ \A i \in 1..Depth : At(stack[i]).op = "loop" => stack[i].ctx = "_start"

\* C9: the int3 of _start runs breakpoint_handler, which makes exactly one
\* report and returns; _start resumes at the step after the int3, the code after
\* it is eventually executed, and no context but _start ever sits in a loop.
C9_BreakpointResumes ==
    /\ []C9_Safe
    /\ (stack[1].pc = Int3Pc) ~> MainFinished

\* the breakpoint was reported once and _start has run to its end
C9_Witness == MainFinished /\ Depth = 1 /\ BreakpointReports = 1

InDoubleFault == \E i \in 1..Depth : stack[i].ctx = "double_fault_handler"

\* the panic message with the stack-frame snapshot has been written
DoubleFaultReported ==
    /\ InDoubleFault
    /\ \E k \in 1..Len(Top.trace) : Top.trace[k] = <<"write", StackFrameDebug>>
    /\ \E k \in 1..Len(out.log) : out.log[k].by = "double_fault_handler" /\ out.log[k].done

\* the double fault handler sits in the panic handler's loop, interrupts disabled
DoubleFaultHalted ==
    /\ Top.ctx = "double_fault_handler"
    /\ Top.pr.pc = "idle"
    /\ Instr.op = "loop"
    /\ ~intr_flag

\* C10: once double_fault_handler is entered it stays the running context and
\* the contexts it interrupted never change again; it reports the stack-frame
\* snapshot, and then stays in the panic handler's loop forever.
C10_DoubleFaultNeverReturns ==
    /\ [][InDoubleFault =>
              /\ Top.ctx = "double_fault_handler"
              /\ Len(stack') = Depth
              /\ stack'[Depth].ctx = "double_fault_handler"
              /\ SubSeq(stack', 1, Depth - 1) = SubSeq(stack, 1, Depth - 1)]_vars
    /\ [][DoubleFaultHalted => DoubleFaultHalted']_vars
    /\ InDoubleFault ~> (DoubleFaultReported /\ DoubleFaultHalted)

\* the double fault interrupted _start, was reported, and the system is halted
C10_Witness ==
    /\ DoubleFaultHalted
    /\ DoubleFaultReported
    /\ Depth = 2
    /\ ~MainFinished

----------------------------------------------------------------------------
(* Claims about _print and the interrupt flag *)

\* C11: every _print call returns with the interrupt flag as it was when the
\* call was made, enabled or disabled, and interrupts are disabled whenever
\* WRITER is held.
C11_PrintKeepsInterruptFlag ==
    /\ \A r \in out.returned : r.exit = r.entry
    /\ locks.WRITER # 0 => ~intr_flag
    /\ \A i \in 1..Depth :
           stack[i].pr.pc \in {"write", "unlock"} => locks.WRITER = i

\* _start has returned from a _print it called with interrupts enabled, and a
\* device handler from one it called with interrupts disabled
C11_Witness ==
    /\ [by |-> "_start", entry |-> TRUE, exit |-> TRUE] \in out.returned
    /\ \E h \in DeviceHandlers : [by |-> h, entry |-> FALSE, exit |-> FALSE] \in out.returned

----------------------------------------------------------------------------
(* Claims about the keyboard handler's decoding *)

KeyboardFrames == {i \in 1..Depth : stack[i].ctx = "keyboard_interrupt_handler"}

\* the decoder gave an error, no event, or an event that decodes to no key
DecodeFailed(f) ==
    \E k \in 1..Len(f.trace) :
        f.trace[k] \in {<<"add_byte", "error">>, <<"add_byte", "none">>,
                        <<"process_keyevent", "None">>}

Wrote(f) == \E k \in 1..Len(f.trace) : f.trace[k][1] = "write"

C12_Safe ==
    /\ ~writer.panicked
    /\ \A i \in KeyboardFrames :
           LET f == stack[i]
           IN /\ f.code = "keyboard_interrupt_handler"
              /\ At(f).op # "panic"
              /\ f.pc > 2 =>
                     /\ Len(f.trace) >= 1
                     /\ f.trace[1] = <<"read", f.scancode>>
                     /\ f.scancode \in ScancodeInputs
              /\ \A k \in 1..Len(f.trace) :
                     f.trace[k][1] \in {"add_byte", "process_keyevent", "write", "eoi"}
                         => k > 1
              /\ DecodeFailed(f) =>
                     /\ ~Wrote(f)
                     /\ f.pr.pc = "idle"
                     /\ f.pc >= 6

\* C12: keyboard_interrupt_handler reads the scancode from port 0x60 first,
\* whatever the decoder makes of it; when the decoder gives an error, no event,
\* or an event that decodes to no key, the handler writes nothing to the
\* display, does not panic, and returns.
C12_DecodeFailureAbsorbed ==
    /\ []C12_Safe
    /\ (\E i \in KeyboardFrames : DecodeFailed(stack[i])) ~> (KeyboardFrames = {})

\* the handler returns after an event that decoded to no key
C12_Witness ==
    /\ Top.ctx = "keyboard_interrupt_handler"
    /\ Returning(Top)
    /\ <<"process_keyevent", "None">> = Top.trace[3]
    /\ ~Wrote(Top)

----------------------------------------------------------------------------
(* Claims about the vector table *)

Handled == {v \in DOMAIN IDT : IDT[v] # "unhandled"}

C13_Table ==
    /\ DOMAIN IDT = 0..255
    /\ Handled = {3, 8, InterruptIndex.Timer, InterruptIndex.Keyboard}
    /\ Cardinality(Handled) = 4
    /\ IDT[3] = "breakpoint_handler"
    /\ IDT[8] = "double_fault_handler"
    /\ IDT[InterruptIndex.Timer] = "timer_interrupt_handler"
    /\ IDT[InterruptIndex.Keyboard] = "keyboard_interrupt_handler"
    /\ {v \in DOMAIN IDT_stack_index : IDT_stack_index[v] # "none"} = {8}
    /\ \A i \in 2..Depth : \E v \in Handled : stack[i].ctx = IDT[v]
    /\ Depth > 1 => idt_loaded
    /\ \A line \in pic.isr : VectorOfLine(line) \notin Handled => InDoubleFault

\* C13: the table has a handler for exactly four vectors, breakpoint (3), double
\* fault (8, the only entry with a stack index), Timer and Keyboard; the other
\* entries of the 256 are unhandled; the handlers the CPU enters are the ones
\* of this table, and the table once loaded stays loaded.
C13_FourHandlers ==
    /\ []C13_Table
    /\ [][idt_loaded => idt_loaded']_vars

\* a vector without a handler (39, IRQ 7) was delivered: the double fault
\* handler has just been entered
C13_Witness ==
    /\ 7 \in pic.isr
    /\ Top.ctx = "double_fault_handler"
    /\ Top.code = "double_fault_handler"
    /\ Top.pc = 1

----------------------------------------------------------------------------
(* Claims about the vector numbers *)

\* the vectors the CPU keeps for its exceptions
CpuExceptions == 0..31

DeviceVectors == {as_u8(InterruptIndex.Timer), as_u8(InterruptIndex.Keyboard)}

\* C14: Timer is vector PIC_1_OFFSET = 32 and Keyboard the next one, 33; neither
\* is a CPU exception vector 0..31, both are in the master's range [32, 40); the
\* slave's offset is the base + 8, and the IRQ lines 0..15 map one to one onto
\* the vectors 32..47.  The handlers acknowledge their own vector.
C14_DeviceVectors ==
    /\ PIC_1_OFFSET = 32
    /\ as_u8(InterruptIndex.Timer) = PIC_1_OFFSET
    /\ as_u8(InterruptIndex.Keyboard) = as_u8(InterruptIndex.Timer) + 1
    /\ as_u8(InterruptIndex.Keyboard) = 33
    /\ \A v \in DeviceVectors :
           /\ v >= 32
           /\ v \notin CpuExceptions
           /\ v >= PIC_1_OFFSET /\ v < PIC_1_OFFSET + 8
    /\ PIC_2_OFFSET = PIC_1_OFFSET + 8
    /\ PIC_2_OFFSET + 7 <= 255
    /\ {VectorOfLine(line) : line \in MasterLines \cup SlaveLines} = 32..47
    /\ \A l1, l2 \in MasterLines \cup SlaveLines :
           l1 # l2 => VectorOfLine(l1) # VectorOfLine(l2)
    /\ {VectorOfLine(line) : line \in MasterLines}
           \cap {VectorOfLine(line) : line \in SlaveLines} = {}
    /\ VectorOfLine(0) = InterruptIndex.Timer
    /\ VectorOfLine(1) = InterruptIndex.Keyboard
    /\ \A i \in 1..Depth :
           \A k \in 1..Len(stack[i].trace) :
               stack[i].trace[k][1] = "eoi" =>
                   /\ stack[i].trace[k][2] \in DeviceVectors
                   /\ IDT[stack[i].trace[k][2]] = stack[i].ctx

\* the keyboard handler has acknowledged vector 33 while the timer's request
\* for vector 32 is pending
C14_Witness ==
    /\ Top.ctx = "keyboard_interrupt_handler"
    /\ Top.trace # <<>>
    /\ Top.trace[Len(Top.trace)] = <<"eoi", 33>>
    /\ 0 \in pic.irr

----------------------------------------------------------------------------
(* Claims about what the Writer's operations leave alone *)

\* C15: write_byte of a byte other than newline with column_position <
\* BUFFER_WIDTH writes the cell (last row, column_position) and increments
\* column_position; every other cell of the framebuffer and color_code are as
\* they were, and nothing is scrolled.
C15_WriteByteOneCell ==
    (WroteByte /\ last.pre.column_position < BUFFER_WIDTH) =>
        /\ writer.column_position = last.pre.column_position + 1
        /\ writer.color_code = last.pre.color_code
        /\ writer.scrolls = last.pre.scrolls
        /\ writer.buffer[LastRow][last.pre.column_position]
               = ScreenChar(last.arg, last.pre.color_code)
        /\ \A r \in Rows : \A c \in Cols :
               (r # LastRow \/ c # last.pre.column_position) =>
                   writer.buffer[r][c] = last.pre.buffer[r][c]
        /\ writer.buffer
               = [last.pre.buffer EXCEPT ![LastRow][last.pre.column_position]
                                             = ScreenChar(last.arg, last.pre.color_code)]

\* a byte was written inside the last row, next to a byte written before it,
\* on a screen that had scrolled
C15_Witness ==
    /\ WroteByte
    /\ last.pre.column_position \in 1..(BUFFER_WIDTH - 1)
    /\ last.pre.scrolls > 0
    /\ writer.buffer[LastRow][last.pre.column_position]
           # last.pre.buffer[LastRow][last.pre.column_position]

----------------------------------------------------------------------------
(* Claims about the bytes write_string hands to write_byte *)

\* every cell of the screen holds a printable byte or the placeholder
Clean(w) ==
    \A r \in Rows : \A c \in Cols :
        w.buffer[r][c].ascii_character \in Printable \cup {PLACEHOLDER}

\* C16: write_string(s) calls write_byte once for each byte of s, in order,
\* with the byte itself when it is printable (0x20..=0x7e) or newline and with
\* 0xfe otherwise; a screen that holds only printable bytes and placeholders
\* holds only such bytes afterwards, and the two bytes of 'o umlaut' give two
\* placeholder cells.
C16_OneWriteBytePerByte ==
    last.op = "write_string" =>
        /\ Len(writer.calls) = Len(last.arg)
        /\ \A i \in 1..Len(last.arg) :
               writer.calls[i] = (IF last.arg[i] \in 32..126 \/ last.arg[i] = 10
                                 THEN last.arg[i] ELSE 254)
        /\ \A i \in 1..Len(last.arg) :
               (last.arg[i] # NEWLINE /\ StillOnRow(last.arg, i)) =>
                   writer.buffer[LastRow][writer.column_position - 1 - (Len(last.arg) - i)]
                       .ascii_character = writer.calls[i]
        /\ Clean(last.pre) => Clean(writer)
        /\ (last.arg = <<87, 195, 182>> /\ last.pre.column_position \in {0, BUFFER_WIDTH}) =>
               /\ writer.calls = <<87, 254, 254>>
               /\ \A c \in 0..2 : c \in Cols =>
                      writer.buffer[LastRow][c]
                          = ScreenChar(writer.calls[c + 1], writer.color_code)

\* "W" and the two bytes of 'o umlaut' were written from the start of a row
C16_Witness ==
    /\ last.op = "write_string"
    /\ last.arg = <<87, 195, 182>>
    /\ last.pre.column_position = 0
    /\ Clean(last.pre)
    /\ writer.buffer[LastRow][1].ascii_character = PLACEHOLDER

----------------------------------------------------------------------------
(* Claims about the indices the Writer uses *)

\* C17: after any sequence of write_byte, write_string and new_line calls from
\* the initial Writer, column_position is in 0..BUFFER_WIDTH, no cell was
\* accessed outside the grid (no panic), and the framebuffer is still the
\* BUFFER_HEIGHT x BUFFER_WIDTH grid.
C17_IndicesInBounds ==
    /\ writer.column_position >= 0
    /\ writer.column_position <= BUFFER_WIDTH
    /\ ~writer.panicked
    /\ DOMAIN writer.buffer = Rows
    /\ \A r \in Rows : DOMAIN writer.buffer[r] = Cols
    /\ last.op = "write_byte" => writer.column_position <= last.pre.column_position + 1

\* write_string was called with the cursor past the last column: it scrolled
\* and wrote on
C17_Witness ==
    /\ last.op = "write_string"
    /\ last.pre.column_position = BUFFER_WIDTH
    /\ writer.scrolls > last.pre.scrolls
    /\ writer.column_position > 0

----------------------------------------------------------------------------
(* Claims about the WRITER lock *)

\* context i is at a WRITER.lock() call
AtWriterLock(i) ==
    \/ stack[i].pr.pc = "lock"
    \/ /\ stack[i].pr.pc = "idle"
       /\ At(stack[i]).op = "lock"
       /\ At(stack[i]).lock = "WRITER"

\* C18 as stated: no context calls WRITER.lock() while it holds the WRITER
\* guard, so every WRITER.lock() call returns.
C18_WriterLockNotReentrant ==
    \A i \in 1..Depth : AtWriterLock(i) => locks.WRITER # i

----------------------------------------------------------------------------
(* Claims about the output of one _print call *)

\* the write_str calls of _print call c have begun
Begun(c) == \E k \in 1..Len(out.log) : out.log[k].call = c

\* context i is inside a _print call that has written a part of its text
MidCall(i) == stack[i].pr.pc = "write" /\ Begun(stack[i].pr.call)

\* C19: the write_str calls of one _print call are next to each other in the
\* order of all writes to the display: no output of another call, of a handler
\* or of mainline, is between the first and the last of them; no handler runs
\* while a call has written a part of its text.
C19_PrintIsAtomic ==
    /\ \A j, l \in 1..Len(out.log) :
           (j < l /\ out.log[j].call = out.log[l].call) =>
               \A k \in j..l :
                   /\ out.log[k].call = out.log[j].call
                   /\ out.log[k].by = out.log[j].by
                   /\ k < l => ~out.log[k].done
    /\ \A i \in 1..Depth : MidCall(i) => i = Depth

\* the timer asks for an interrupt while println!("It did not crash!") has
\* written its text and not yet its newline
C19_Witness ==
    /\ Depth = 1
    /\ MidCall(1)
    /\ Top.pr.pieces = << <<NEWLINE>> >>
    /\ 0 \in pic.irr
    /\ pic.initialized
    /\ idt_loaded
    /\ \E k \in 1..Len(out.log) : out.log[k].by \in DeviceHandlers

----------------------------------------------------------------------------
(* Claims about ColorCode::new *)

\* C20: for all color indices 0..15, ColorCode::new(foreground, background) is
\* background * 16 + foreground, a value of 8 bits from which nothing was
\* shifted out: its high nibble is the background, its low nibble the
\* foreground, and no other pair of colors gives the same value.  The cells
\* written carry it.
C20_ColorCodeNibbles ==
    /\ ColorIndex = 0..15
    /\ last.op = "ColorCode_new" =>
           LET foreground == last.arg[1]
               background == last.arg[2]
               code == writer.color_code
           IN /\ code = ColorCode_new(foreground, background)
              /\ code = background * 16 + foreground
              /\ code \in 0..255
              /\ background * 16 < 256
              /\ code \div 16 = background
              /\ code % 16 = foreground
              /\ \A f \in ColorIndex : \A b \in ColorIndex :
                     ColorCode_new(f, b) = code => (f = foreground /\ b = background)
              /\ run = 1 => writer.buffer[LastRow][0] = ScreenChar(65, code)

\* a Writer built with White on Red has written a byte
C20_Witness ==
    /\ last.op = "ColorCode_new"
    /\ last.arg = <<Color.White, Color.Red>>
    /\ run = 1
    /\ writer.buffer[LastRow][0].color_code = 79

=============================================================================
